---- MODULE Spec2Model ----
(***************************************************************************)
(* Verification model of the CSV -> JSON fixture generators.               *)
(*                                                                         *)
(*  - csv_to_json_v3.py: generate_categories and its __main__ driver       *)
(*    (variables prefixed by nothing or v3_, specification SpecV3).        *)
(*  - convert_multi_level_categories.py: CategoryConverter                 *)
(*    (specification SpecConverter).                                       *)
(*                                                                         *)
(* Text is modelled as a sequence of one-character strings, so that        *)
(* slugify, strip, join and suffix removal are computed, not assumed.      *)
(***************************************************************************)
EXTENDS Integers, Sequences, FiniteSets, TLC

(***************************************************************************)
(* Bounds of the model.                                                    *)
(***************************************************************************)
\* Rows read in one run of a pipeline (over all its tables).
MaxRows == 2

(***************************************************************************)
(* Python values.                                                          *)
(***************************************************************************)
\* Python's None where an integer pk is expected (pks start at 3000).
None == 0

\* The empty string.
Empty == <<>>

\* Cell values of the input tables.
NameA == <<"A">>
NameLowerA == <<"a">>
NameB == <<"B">>
FileCell == <<"f.mp4">>

\* "sep".join(parts)
RECURSIVE Join(_, _)
Join(sep, parts) ==
    IF parts = <<>> THEN <<>>
    ELSE IF Len(parts) = 1 THEN parts[1]
    ELSE parts[1] \o sep \o Join(sep, Tail(parts))

\* str.lower() on the characters the inputs use.
LowerChar(c) ==
    CASE c = "A" -> "a"
      [] c = "B" -> "b"
      [] c = "U" -> "u"
      [] OTHER -> c

\* str.strip(): leading and trailing whitespace removed.
RECURSIVE Strip(_)
Strip(s) ==
    IF s = <<>> THEN s
    ELSE IF Head(s) = " " THEN Strip(Tail(s))
    ELSE IF s[Len(s)] = " " THEN Strip(SubSeq(s, 1, Len(s) - 1))
    ELSE s

\* str.replace(old, new) for a one-character old and a new of any length.
RECURSIVE ReplaceChar(_, _, _)
ReplaceChar(s, old, new) ==
    IF s = <<>> THEN <<>>
    ELSE (IF Head(s) = old THEN new ELSE <<Head(s)>>) \o ReplaceChar(Tail(s), old, new)

\* re.sub(r'-+', '-', slug)
RECURSIVE CollapseHyphens(_)
CollapseHyphens(s) ==
    IF Len(s) < 2 THEN s
    ELSE IF s[1] = "-" /\ s[2] = "-" THEN CollapseHyphens(Tail(s))
    ELSE <<s[1]>> \o CollapseHyphens(Tail(s))

\* s.endswith(suf)
EndsWith(s, suf) ==
    /\ Len(s) >= Len(suf)
    /\ SubSeq(s, Len(s) - Len(suf) + 1, Len(s)) = suf

(***************************************************************************)
(* csv_to_json_v3.py                                                       *)
(***************************************************************************)
\* slugify(text) of csv_to_json_v3.py
slugify_v3(text) ==
    LET lowered  == [i \in 1..Len(text) |-> LowerChar(text[i])]
        stripped == Strip(lowered)
        spaces   == ReplaceChar(stripped, " ", <<"-">>)
        noOpen   == ReplaceChar(spaces, "(", <<>>)
        noClose  == ReplaceChar(noOpen, ")", <<>>)
        slashes  == ReplaceChar(noClose, "/", <<"-">>)
    IN  CollapseHyphens(slashes)

KNOWN_SUFFIXES == << <<"-", "u", "n">>, <<"-", "e", "x", "p">>, <<"-", "d", "e", "v">> >>

\* re.sub(r'(?:-un|-exp|-dev)+$', '', slug_value): the whole trailing run goes.
RECURSIVE remove_known_suffixes(_)
remove_known_suffixes(slug_value) ==
    IF \E k \in 1..Len(KNOWN_SUFFIXES) : EndsWith(slug_value, KNOWN_SUFFIXES[k])
    THEN LET k == CHOOSE j \in 1..Len(KNOWN_SUFFIXES) : EndsWith(slug_value, KNOWN_SUFFIXES[j])
         IN  remove_known_suffixes(SubSeq(slug_value, 1, Len(slug_value) - Len(KNOWN_SUFFIXES[k])))
    ELSE slug_value

\* pk_to_slug.get(pk, '')
SlugOfPk(pk_to_slug_, pk) ==
    IF pk \in DOMAIN pk_to_slug_ THEN pk_to_slug_[pk] ELSE Empty

\* ensure_unique_slug without its membership test: every raw slug is accepted.
AnyRawSlugFree(raw_slug, used) == TRUE

\* The first check of ensure_unique_slug: the raw slug is free.
RawSlugFree(raw_slug, used) == raw_slug \notin used

\* ensure_unique_slug without the membership test of a composite candidate.
AnyCandidateFree(candidate, used) == TRUE

\* The check of a composite candidate of ensure_unique_slug.
CandidateFree(candidate, used) == candidate \notin used

\* The loop of ensure_unique_slug over parent_pks[i..]; parent_chain is the
\* list built so far (outermost ancestor first).  [ok |-> FALSE] is the raise.
RECURSIVE WalkParents(_, _, _, _, _, _)
WalkParents(raw_slug, parent_pks, i, parent_chain, pk_to_slug_, used) ==
    IF i > Len(parent_pks) THEN [ok |-> FALSE, slug |-> Empty]
    ELSE LET parent_full_slug == SlugOfPk(pk_to_slug_, parent_pks[i])
             parent_base      == remove_known_suffixes(parent_full_slug)
         IN  IF parent_base # Empty
             THEN LET chain     == <<parent_base>> \o parent_chain
                      candidate == Join(<<"-">>, chain \o <<raw_slug>>)
                  IN  IF CandidateFree(candidate, used)
                      THEN [ok |-> TRUE, slug |-> candidate]
                      ELSE WalkParents(raw_slug, parent_pks, i + 1, chain, pk_to_slug_, used)
             ELSE WalkParents(raw_slug, parent_pks, i + 1, parent_chain, pk_to_slug_, used)

\* ensure_unique_slug without its first test: the ancestors are always walked.
AlwaysWalkParents(raw_slug, parent_pks, pk_to_slug_, used) ==
    WalkParents(raw_slug, parent_pks, 1, <<>>, pk_to_slug_, used)

\* ensure_unique_slug(raw_slug, parent_pks, pk_to_slug, used_slugs)
ensure_unique_slug(raw_slug, parent_pks, pk_to_slug_, used) ==
    IF RawSlugFree(raw_slug, used) THEN [ok |-> TRUE, slug |-> raw_slug]
    ELSE WalkParents(raw_slug, parent_pks, 1, <<>>, pk_to_slug_, used)


\* files_and_types of __main__: (category type, slug suffix, video prefix).
files_and_types_v3 ==
    << [cat_type |-> "SEQUENCE",    slug_suffix |-> Empty,
        video_prefix |-> <<"odissi/sequence">>],
       [cat_type |-> "UNIT",        slug_suffix |-> <<"-", "u", "n">>,
        video_prefix |-> <<"odissi/unit">>],
       [cat_type |-> "EXPLANATION", slug_suffix |-> <<"-", "u", "n", "-", "e", "x", "p">>,
        video_prefix |-> <<"odissi/explanation">>],
       [cat_type |-> "CONTEXT",     slug_suffix |-> <<"-", "u", "n", "-", "d", "e", "v">>,
        video_prefix |-> <<"odissi/context">> ] >>

\* The seeds of __main__.
StartPkV3 == 4000
DataPkStartV3 == 7000
MovementsPkStartV3 == 3000

\* d[k] = v on a dict
DictSet(d, k, v) == [x \in (DOMAIN d) \cup {k} |-> IF x = k THEN v ELSE d[x]]

\* The empty dict.
EmptyDict == [x \in {} |-> None]

\* A category record of generate_categories (created_at, updated_at and
\* is_active are the same constants on every record and are left out).
CategoryObjV3(pk, name, slug, type, parent, sort) ==
    IF parent = None
    THEN [pk |-> pk, name |-> name, slug |-> slug, type |-> type, parent |-> None,
          has_data |-> 1, category_type |-> "ODISSI", sort |-> sort]
    ELSE [pk |-> pk, name |-> name, slug |-> slug, type |-> type, parent |-> parent,
          has_data |-> 1, sort |-> sort]

\* categories.append(cat_obj); used_slugs.add(unique_slug);
\* pk_to_slug[next_pk] = unique_slug; parent_map[next_pk] = []
AppendCategoryV3(s, cat_obj) ==
    [s EXCEPT !.categories = Append(@, cat_obj),
              !.used_slugs = @ \cup {cat_obj.slug},
              !.pk_to_slug = DictSet(@, cat_obj.pk, cat_obj.slug),
              !.parent_map = DictSet(@, cat_obj.pk, <<>>)]

\* "sort": len(parent_map[parent]) + 1
ChildSortV3(s, parent) == Len(s.parent_map[parent]) + 1

\* LEVEL 1 of one row.
Level1V3(s, level1, T) ==
    IF s.raised \/ level1 = Empty THEN s
    ELSE LET raw_slug == slugify_v3(level1) \o T.slug_suffix
             u        == ensure_unique_slug(raw_slug, <<>>, s.pk_to_slug, s.used_slugs)
         IN  IF ~u.ok THEN [s EXCEPT !.raised = TRUE]
             ELSE LET cat_obj == CategoryObjV3(s.next_pk, level1, u.slug, T.cat_type,
                                               None, s.sort_order_level1)
                      s1      == AppendCategoryV3(s, cat_obj)
                  IN  [s1 EXCEPT
                         !.overview_slugs = DictSet(@, level1,
                              slugify_v3(level1)
                                \o <<"-", "o", "v", "e", "r", "v", "i", "e", "w">>
                                \o T.slug_suffix),
                         !.current_parent_pk = s.next_pk,
                         !.current_child_pk = None,
                         !.current_grandchild_pk = None,
                         !.next_pk = @ + 1,
                         !.sort_order_level1 = @ + 1]

\* LEVEL 2 of one row.
Level2V3(s, level2, T) ==
    IF s.raised \/ ~(level2 # Empty /\ s.current_parent_pk # None) THEN s
    ELSE LET raw_slug == slugify_v3(level2) \o T.slug_suffix
             u        == ensure_unique_slug(raw_slug, <<s.current_parent_pk>>,
                                            s.pk_to_slug, s.used_slugs)
         IN  IF ~u.ok THEN [s EXCEPT !.raised = TRUE]
             ELSE LET cat_obj == CategoryObjV3(s.next_pk, level2, u.slug, T.cat_type,
                                               s.current_parent_pk,
                                               ChildSortV3(s, s.current_parent_pk))
                      s1      == AppendCategoryV3(s, cat_obj)
                  IN  [s1 EXCEPT
                         !.parent_map[s.current_parent_pk] = Append(@, s.next_pk),
                         !.current_child_pk = s.next_pk,
                         !.current_grandchild_pk = None,
                         !.next_pk = @ + 1]

\* LEVEL 3 of one row.
Level3V3(s, level3, T) ==
    IF s.raised \/ ~(level3 # Empty /\ s.current_child_pk # None) THEN s
    ELSE LET raw_slug == slugify_v3(level3) \o T.slug_suffix
             u        == ensure_unique_slug(raw_slug,
                                            <<s.current_child_pk, s.current_parent_pk>>,
                                            s.pk_to_slug, s.used_slugs)
         IN  IF ~u.ok THEN [s EXCEPT !.raised = TRUE]
             ELSE LET cat_obj == CategoryObjV3(s.next_pk, level3, u.slug, T.cat_type,
                                               s.current_child_pk,
                                               ChildSortV3(s, s.current_child_pk))
                      s1      == AppendCategoryV3(s, cat_obj)
                  IN  [s1 EXCEPT
                         !.parent_map[s.current_child_pk] = Append(@, s.next_pk),
                         !.current_grandchild_pk = s.next_pk,
                         !.next_pk = @ + 1]

\* LEVEL 4 of one row, and the else branch that picks the row's final category.
Level4V3(s, level4, T) ==
    IF s.raised THEN s
    ELSE IF level4 # Empty /\ s.current_grandchild_pk # None
    THEN LET raw_slug == slugify_v3(level4) \o T.slug_suffix
             u        == ensure_unique_slug(raw_slug,
                              <<s.current_grandchild_pk, s.current_child_pk,
                                s.current_parent_pk>>,
                              s.pk_to_slug, s.used_slugs)
         IN  IF ~u.ok THEN [s EXCEPT !.raised = TRUE]
             ELSE LET cat_obj == CategoryObjV3(s.next_pk, level4, u.slug, T.cat_type,
                                               s.current_grandchild_pk,
                                               ChildSortV3(s, s.current_grandchild_pk))
                      s1      == AppendCategoryV3(s, cat_obj)
                  IN  [s1 EXCEPT
                         !.parent_map[s.current_grandchild_pk] = Append(@, s.next_pk),
                         !.final_category_pk_for_this_row = s.next_pk,
                         !.next_pk = @ + 1]
    ELSE [s EXCEPT !.final_category_pk_for_this_row =
                       IF s.current_grandchild_pk # None THEN s.current_grandchild_pk
                       ELSE IF s.current_child_pk # None THEN s.current_child_pk
                       ELSE s.current_parent_pk]

\* row_title = level4 if level4 else (level3 if level3 else (level2 if level2 else level1))
RowTitleV3(row) ==
    IF row.level4 # Empty THEN row.level4
    ELSE IF row.level3 # Empty THEN row.level3
    ELSE IF row.level2 # Empty THEN row.level2
    ELSE row.level1

\* prefixed_path = f"{video_prefix}/{val}" if video_prefix else val
PrefixedPathV3(T, val) ==
    IF T.video_prefix # Empty THEN T.video_prefix \o <<"/">> \o val ELSE val

\* create_data_and_urls(title_str, direction_val, video_path, parent_cat_pk)
create_data_and_urls(s, row, T, title_str, direction_val, video_path, parent_cat_pk) ==
    LET data_item == [pk |-> s.current_data_pk, title |-> title_str,
                      category_id |-> parent_cat_pk, direction |-> direction_val]
        urls_item == [pk |-> s.current_data_pk, path |-> video_path, type |-> "video",
                      category_data_id |-> s.current_data_pk]
        row_title == RowTitleV3(row)
        related_slug == slugify_v3(row_title) \o T.slug_suffix
        overview == row.level1 # Empty /\ row.level1 \in DOMAIN s.overview_slugs
        overview_movement ==
            [pk |-> s.current_movements_pk,
             name |-> row.level1 \o <<" ", "O", "v", "e", "r", "v", "i", "e", "w">>,
             category_data_movements_id |-> s.current_data_pk,
             related_explanation_slug |-> s.overview_slugs[row.level1],
             type |-> "EXPLANATION", is_related_only |-> TRUE]
        movement_pk == IF overview THEN s.current_movements_pk + 1
                       ELSE s.current_movements_pk
        movement ==
            [pk |-> movement_pk, name |-> row_title,
             category_data_movements_id |-> s.current_data_pk,
             start_time |-> 0, end_time |-> 2000,
             related_explanation_slug |-> related_slug, type |-> T.cat_type]
    IN  [s EXCEPT
           !.all_categories_data = Append(@, data_item),
           !.all_categories_data_urls = Append(@, urls_item),
           !.all_categories_movements =
               (IF overview THEN Append(@, overview_movement) ELSE @) \o <<movement>>,
           !.current_movements_pk = movement_pk + 1,
           !.current_data_pk = @ + 1]

\* The three media cells of one row, in the order front, side, movie.
MediaV3(s, row, T) ==
    IF s.raised THEN s
    ELSE LET front_val == Strip(row.front)
             side_val  == Strip(row.side)
             movie_val == Strip(row.movie)
             title     == RowTitleV3(row)
             final     == s.final_category_pk_for_this_row
             s1 == IF front_val # Empty
                   THEN create_data_and_urls(s, row, T, title, <<"front">>,
                                             PrefixedPathV3(T, front_val), final)
                   ELSE s
             s2 == IF side_val # Empty
                   THEN create_data_and_urls(s1, row, T, title, <<"side">>,
                                             PrefixedPathV3(T, side_val), final)
                   ELSE s1
         IN  IF movie_val # Empty
             THEN create_data_and_urls(s2, row, T, title, Empty,
                                       PrefixedPathV3(T, movie_val), final)
             ELSE s2

\* The cells of a row as the loop reads them: row.get(col, '').strip()
StrippedRowV3(row) ==
    [row EXCEPT !.level1 = Strip(@), !.level2 = Strip(@),
                !.level3 = Strip(@), !.level4 = Strip(@)]

\* The body of "for row in reader" of generate_categories.
ProcessRowV3(s, rawrow, T) ==
    LET row == StrippedRowV3(rawrow)
        s1  == Level1V3(s, row.level1, T)
        s2  == Level2V3(s1, row.level2, T)
        s3  == Level3V3(s2, row.level3, T)
        s4  == Level4V3(s3, row.level4, T)
    IN  MediaV3(s4, row, T)

\* generate_categories without its final pass: the flags stay as created.
FinalPassSkipped(cats, parent_map_) == cats

\* Final pass for has_data
FinalPassV3(cats, parent_map_) ==
    [i \in 1..Len(cats) |->
        IF cats[i].pk \in DOMAIN parent_map_ /\ Len(parent_map_[cats[i].pk]) > 0
        THEN [cats[i] EXCEPT !.has_data = 0]
        ELSE cats[i]]


(***************************************************************************)
(* convert_multi_level_categories.py                                       *)
(***************************************************************************)
\* A blank cell as pandas reads it (NaN); pd.notna(cell) is cell # NaN.
NaN == <<"NaN">>

\* Cells of the start_time / end_time columns.
TimeNaN == [kind |-> "nan"]
TimeInt(n) == [kind |-> "int", v |-> n]

\* A populated cell that int() does not accept, such as "abc".
TimeText == [kind |-> "text"]

\* int(cell) raises ValueError.
IntRaises(cell) == cell.kind = "text"

\* slugify of the python-slugify package on the characters the inputs use:
\* lower case, every run of characters other than a-z0-9 becomes one hyphen,
\* hyphens at the two ends are dropped.
RECURSIVE StripHyphens(_)
StripHyphens(s) ==
    IF s = <<>> THEN s
    ELSE IF Head(s) = "-" THEN StripHyphens(Tail(s))
    ELSE IF s[Len(s)] = "-" THEN StripHyphens(SubSeq(s, 1, Len(s) - 1))
    ELSE s

SlugChars == {"a", "b", "u", "n", "e", "x", "p", "d", "v", "o", "r", "i", "w", "f", "s"}

slugify(text) ==
    LET lowered == [i \in 1..Len(text) |-> LowerChar(text[i])]
        hyphens == [i \in 1..Len(lowered) |->
                       IF lowered[i] \in SlugChars THEN lowered[i] ELSE "-"]
    IN  StripHyphens(CollapseHyphens(hyphens))

TYPE_MAP ==
    [context_menu |-> "CONTEXT", sequence_menu |-> "SEQUENCE", unit_menu |-> "UNIT",
     explanation_sequence |-> "EXPLANATION", explanation_unit |-> "EXPLANATION"]

\* reset_pk_counters
PkSeedCategories == 4000
PkSeedData == 7000
PkSeedDataUrls == 7000
PkSeedMovements == 3000

\* d.get(k): the value, or None
DictGetPk(d, k) == IF k \in DOMAIN d THEN d[k] ELSE None

UnExp == <<"-", "u", "n", "-", "e", "x", "p">>
UnDev == <<"-", "u", "n", "-", "d", "e", "v">>

\* The key of one explanation row: every level column, "" for a blank cell.
PopulatedKey(levels) ==
    Join(<<"|">>, SelectSeq(levels, LAMBDA x : x # NaN))

\* The key of a row of an explanation table.
ExplanationKey(levels) ==
    Join(<<"|">>, [i \in 1..Len(levels) |->
                      IF levels[i] # NaN THEN Strip(levels[i]) ELSE Empty])

\* The loop over the rows of one explanation table in load_explanation_slugs.
RECURSIVE ExplanationSlugDict(_, _)
ExplanationSlugDict(rows, slug_dict) ==
    IF rows = <<>> THEN slug_dict
    ELSE LET levels     == Head(rows)
             key        == ExplanationKey(levels)
             slug_value == levels[Len(levels)]
         IN  ExplanationSlugDict(Tail(rows),
                 IF slug_value # NaN
                 THEN DictSet(slug_dict, key, slugify(slug_value) \o UnExp)
                 ELSE slug_dict)

\* load_explanation_slugs: files maps a file type to the rows of its table, or
\* to Unreadable when pd.read_csv raises (the type then gets no entry).
Unreadable == <<"unreadable">>

RECURSIVE load_explanation_slugs(_, _, _)
load_explanation_slugs(slug_map, files, ftypes) ==
    IF ftypes = <<>> THEN slug_map
    ELSE LET ftype == Head(ftypes)
         IN  load_explanation_slugs(
                 IF files[ftype] = Unreadable THEN slug_map
                 ELSE DictSet(slug_map, ftype, ExplanationSlugDict(files[ftype], EmptyDict)),
                 files, Tail(ftypes))

\* The slug of create_category.
CategorySlug(name, file_type) ==
    IF file_type = "context_menu" THEN slugify(name) \o UnDev ELSE slugify(name)

\* create_category (created_at, updated_at, is_active are constants, left out)
create_category(c, name, parent_pk, has_data, file_type, sort) ==
    LET fields == [pk |-> c.pk_counter_categories, name |-> name,
                   slug |-> CategorySlug(name, file_type),
                   type |-> TYPE_MAP[file_type], parent |-> parent_pk,
                   has_data |-> has_data, sort |-> sort]
    IN  IF parent_pk = None THEN fields @@ [category_type |-> "ODISSI"] ELSE fields

\* process_row without the lookup: every populated level creates a category.
KeyAlwaysNew(full_key, pk_map_) == TRUE

\* "if full_key not in self.pk_map"
KeyIsNew(full_key, pk_map_) == full_key \notin DOMAIN pk_map_

\* "has_data = 1 if i == leaf_index else 0": the flag is set at creation only.
HasDataAtCreation(i, leaf_index) == IF i = leaf_index THEN 1 ELSE 0

\* One iteration of "for i, col in enumerate(level_columns)" of process_row;
\* st carries the converter state c, current_path and last_cat_pk.
LevelStep(st, levels, i, leaf_index, file_type) ==
    IF levels[i] = NaN THEN st
    ELSE LET current_path == [st.current_path EXCEPT ![i] = Strip(levels[i])]
             full_key     == Join(<<"|">>, SubSeq(current_path, 1, i))
             c            == st.c
             counters     == IF full_key \notin DOMAIN c.sort_counters
                             THEN DictSet(c.sort_counters, full_key, 1)
                             ELSE c.sort_counters
         IN  IF KeyIsNew(full_key, c.pk_map)
             THEN LET parent_pk == IF i > 1
                                   THEN DictGetPk(c.pk_map,
                                            Join(<<"|">>, SubSeq(current_path, 1, i - 1)))
                                   ELSE None
                      cat == create_category(c, levels[i], parent_pk,
                                 HasDataAtCreation(i, leaf_index), file_type,
                                 counters[full_key])
                  IN  [ c |-> [c EXCEPT
                                 !.pk_counter_categories = @ + 1,
                                 !.pk_map = DictSet(@, full_key, cat.pk),
                                 !.categories = Append(@, cat),
                                 !.sort_counters = [counters EXCEPT ![full_key] = @ + 1]],
                        current_path |-> current_path,
                        last_cat_pk |-> cat.pk ]
             ELSE [ c |-> [c EXCEPT !.sort_counters = counters],
                    current_path |-> current_path,
                    last_cat_pk |-> c.pk_map[full_key] ]

RECURSIVE LevelLoop(_, _, _, _, _)
LevelLoop(st, levels, i, leaf_index, file_type) ==
    IF i > Len(levels) THEN st
    ELSE LevelLoop(LevelStep(st, levels, i, leaf_index, file_type),
                   levels, i + 1, leaf_index, file_type)

\* create_category_data + create_category_data_url for one direction.
PathPrefix(file_type) ==
    CASE file_type = "context_menu" -> <<"odissi/context/">>
      [] file_type = "sequence_menu" -> <<"odissi/sequence/">>
      [] file_type = "unit_menu" -> <<"odissi/unit/">>
      [] OTHER -> <<"odissi/explanation/">>

AddDataWithUrl(c, title, category_id, direction, filename, file_type) ==
    [c EXCEPT
       !.categories_data =
           Append(@, [pk |-> c.pk_counter_data, title |-> title,
                      category_id |-> category_id, direction |-> direction]),
       !.pk_counter_data = @ + 1,
       !.categories_data_urls =
           Append(@, [pk |-> c.pk_counter_data_urls,
                      path |-> PathPrefix(file_type) \o filename,
                      type |-> "video", category_data_id |-> c.pk_counter_data]),
       !.pk_counter_data_urls = @ + 1]

\* The default record when the row has neither front nor side.
AddDefaultData(c, title, category_id) ==
    [c EXCEPT
       !.categories_data =
           Append(@, [pk |-> c.pk_counter_data, title |-> title,
                      category_id |-> category_id, direction |-> Empty]),
       !.pk_counter_data = @ + 1]

\* An optional slug argument: NoSlug is Python's None for a slug.
NoSlug == <<"None">>

\* explanation_slug_map.get(lookup_type, {}).get(key)
LookupSlug(slug_map, lookup_type, key) ==
    IF lookup_type \in DOMAIN slug_map /\ key \in DOMAIN slug_map[lookup_type]
    THEN slug_map[lookup_type][key]
    ELSE NoSlug

\* create_category_movement
create_category_movement(c, category_data_id, name, movement_type, related_explanation_slug, start_time, end_time, is_related_only) ==
    LET base == [pk |-> c.pk_counter_movements, name |-> name,
                 category_data_movements_id |-> category_data_id,
                 type |-> movement_type, is_related_only |-> is_related_only]
        withSlug ==
            IF related_explanation_slug # NoSlug
            THEN base @@ [related_explanation_slug |->
                            IF EndsWith(related_explanation_slug, UnExp)
                            THEN related_explanation_slug
                            ELSE related_explanation_slug \o UnExp]
            ELSE base
        withStart == IF start_time # TimeNaN
                     THEN withSlug @@ [start_time |-> start_time.v] ELSE withSlug
        withEnd   == IF end_time # TimeNaN
                     THEN withStart @@ [end_time |-> end_time.v] ELSE withStart
    IN  IF IntRaises(start_time) \/ IntRaises(end_time)
        THEN [c EXCEPT !.raised = TRUE]
        ELSE [c EXCEPT !.categories_movements = Append(@, withEnd),
                       !.pk_counter_movements = @ + 1]

\* The explanation table a file type looks its rows up in.
LookupType(file_type) ==
    CASE file_type = "sequence_menu" -> "explanation_sequence"
      [] file_type = "unit_menu" -> "explanation_unit"
      [] file_type \in {"explanation_sequence", "explanation_unit"} -> file_type
      [] OTHER -> "none"

\* leaf_key = "|".join(current_path[:leaf_index+1])
LeafKey(current_path, leaf_index) == Join(<<"|">>, SubSeq(current_path, 1, leaf_index))

\* parent_key = "|".join(current_path[:leaf_index])
ParentKey(current_path, leaf_index) ==
    Join(<<"|">>, SubSeq(current_path, 1, leaf_index - 1))

\* is_related_only of the single movement of an untimed row.
UntimedIsRelatedOnly(leaf_slug) == FALSE

\* The movements of one data record ("for data_rec in data_records").
MovementsOfData(c, data_pk, row, current_path, leaf_index, leaf_slug, file_type, slug_map) ==
    LET leaf_title == current_path[leaf_index]
        has_timing == row.start_time # TimeNaN /\ row.end_time # TimeNaN
    IN  IF has_timing
        THEN LET parent_name == IF leaf_index > 1
                                THEN current_path[leaf_index - 1]
                                       \o <<" ", "O", "v", "e", "r", "v", "i", "e", "w">>
                                ELSE leaf_title
                 parent_key  == ParentKey(current_path, leaf_index)
                 parent_slug == IF leaf_index > 1
                                     /\ file_type \in {"sequence_menu", "unit_menu"}
                                THEN LookupSlug(slug_map, LookupType(file_type), parent_key)
                                ELSE leaf_slug
                 c1 == create_category_movement(c, data_pk, parent_name, "EXPLANATION",
                                                parent_slug, TimeNaN, TimeNaN, TRUE)
             IN  create_category_movement(c1, data_pk, leaf_title, "EXPLANATION",
                                          leaf_slug, row.start_time, row.end_time, FALSE)
        ELSE create_category_movement(c, data_pk, leaf_title, "EXPLANATION",
                                      leaf_slug, TimeNaN, TimeNaN,
                                      UntimedIsRelatedOnly(leaf_slug))

RECURSIVE MovementsLoop(_, _, _, _, _, _, _, _)
MovementsLoop(c, data_pks, row, current_path, leaf_index, leaf_slug, file_type, slug_map) ==
    IF data_pks = <<>> \/ c.raised THEN c
    ELSE MovementsLoop(
             MovementsOfData(c, Head(data_pks), row, current_path, leaf_index,
                             leaf_slug, file_type, slug_map),
             Tail(data_pks), row, current_path, leaf_index, leaf_slug, file_type,
             slug_map)

\* process_row(row, level_columns, file_type, ...)
process_row(c0, row, file_type, slug_map) ==
    LET levels   == row.levels
        non_null == { i \in 1..Len(levels) : levels[i] # NaN }
    IN  IF non_null = {} THEN c0
        ELSE
        LET leaf_index == CHOOSE i \in non_null : \A j \in non_null : j <= i
            st == LevelLoop([c |-> c0,
                             current_path |-> [i \in 1..Len(levels) |-> Empty],
                             last_cat_pk |-> None],
                            levels, 1, leaf_index, file_type)
            leaf_title == st.current_path[leaf_index]
            front_file == IF row.front # NaN THEN Strip(row.front) ELSE Empty
            side_file  == IF row.side # NaN THEN Strip(row.side) ELSE Empty
            c1 == IF front_file # Empty
                  THEN AddDataWithUrl(st.c, leaf_title, st.last_cat_pk, <<"front">>,
                                      front_file, file_type)
                  ELSE st.c
            c2 == IF side_file # Empty
                  THEN AddDataWithUrl(c1, leaf_title, st.last_cat_pk, <<"side">>,
                                      side_file, file_type)
                  ELSE c1
            c3 == IF front_file = Empty /\ side_file = Empty
                  THEN AddDefaultData(c2, leaf_title, st.last_cat_pk)
                  ELSE c2
            data_pks == [k \in 1..(c3.pk_counter_data - c0.pk_counter_data) |->
                            c0.pk_counter_data + k - 1]
            leaf_key  == LeafKey(st.current_path, leaf_index)
            leaf_slug == IF LookupType(file_type) # "none"
                         THEN LookupSlug(slug_map, LookupType(file_type), leaf_key)
                         ELSE NoSlug
        IN  MovementsLoop(c3, data_pks, row, st.current_path, leaf_index, leaf_slug,
                          file_type, slug_map)

(***************************************************************************)
(* convert_multi_level_categories_all.py                                   *)
(***************************************************************************)
PkSeedAll == 4000
DataPkSeedAll == 7000
MovementPkSeedAll == 3000

\* filter(None, xs): the non-empty strings of xs, in order.
RECURSIVE FilterNonEmpty(_)
FilterNonEmpty(xs) ==
    IF xs = <<>> THEN <<>>
    ELSE IF Head(xs) = Empty THEN FilterNonEmpty(Tail(xs))
         ELSE <<Head(xs)>> \o FilterNonEmpty(Tail(xs))

\* '|'.join(filter(None, current_path[:n]))
FilteredPath(current_path, n) ==
    Join(<<"|">>, FilterNonEmpty(SubSeq(current_path, 1,
                                        IF Len(current_path) < n THEN Len(current_path) ELSE n)))

\* "current_path[i:] = [value]" for the 0-based index i0.
AssignPathTail(current_path, i0, value) ==
    SubSeq(current_path, 1, IF Len(current_path) < i0 THEN Len(current_path) ELSE i0)
        \o <<value>>

\* The names of the level columns, as get_level_columns sorts them.
LevelColumnName(i) == <<"l", "e", "v", "e", "l">> \o (IF i = 1 THEN <<"1">> ELSE <<"2">>)

\* category_type = None
NoCategoryType == "None"

\* create_category of convert_multi_level_categories_all.py
create_category_all(c, name, parent_pk, sort, has_data, category_type) ==
    LET fields == [pk |-> c.pk_counter, name |-> name, slug |-> slugify(name),
                   type |-> "SEQUENCE", parent |-> parent_pk,
                   has_data |-> has_data, sort |-> sort]
        cat == IF category_type # NoCategoryType /\ parent_pk = None
               THEN fields @@ [category_type |-> category_type] ELSE fields
    IN  [c EXCEPT !.categories = Append(@, cat), !.pk_counter = @ + 1]

\* One turn of "for i, col in enumerate(level_columns)"; i is 1-based.
LevelStepAll(c, levels, i) ==
    IF levels[i] = NaN THEN c
    ELSE
    LET path      == AssignPathTail(c.current_path, i - 1, levels[i])
        full_path == FilteredPath(path, i)
        c1        == [c EXCEPT !.current_path = path]
    IN  IF full_path \in DOMAIN c.pk_map
        THEN [c1 EXCEPT !.last_category_id = c.pk_map[full_path]]
        ELSE
        LET parent_path == IF i > 1 THEN FilteredPath(path, i - 1) ELSE Empty
            parent_pk   == IF i > 1 /\ Len(path) > 1
                           THEN DictGetPk(c.pk_map, parent_path) ELSE None
            sort_key    == parent_path \o <<"|">> \o LevelColumnName(i)
            sort        == IF sort_key \in DOMAIN c.sort_counters
                           THEN c.sort_counters[sort_key] ELSE 1
            c2 == create_category_all(c1, levels[i], parent_pk, sort,
                                      IF i = 1 THEN 0 ELSE 1,
                                      IF i = 1 THEN "ODISSI" ELSE NoCategoryType)
        IN  [c2 EXCEPT !.pk_map = DictSet(@, full_path, c1.pk_counter),
                       !.last_category_id = c1.pk_counter,
                       !.sort_counters = DictSet(@, sort_key, sort + 1)]

RECURSIVE LevelLoopAll(_, _, _)
LevelLoopAll(c, levels, i) ==
    IF i > Len(levels) THEN c
    ELSE LevelLoopAll(LevelStepAll(c, levels, i), levels, i + 1)

\* The title of a row: its last populated level cell, or the fallback.
RECURSIVE TitleAll(_, _)
TitleAll(levels, i) ==
    IF i = 0 THEN <<"Untitled">>
    ELSE IF levels[i] # NaN THEN levels[i] ELSE TitleAll(levels, i - 1)

\* str.capitalize and str.upper on the two movement types the rows produce.
Capitalize(movement_type) ==
    IF movement_type = "explanation" THEN "Explanation" ELSE "Sequence"

Upper(movement_type) ==
    IF movement_type = "explanation" THEN "EXPLANATION" ELSE "SEQUENCE"

\* create_category_movement of convert_multi_level_categories_all.py
create_category_movement_all(c, category_data_id, related_slug, movement_type) ==
    LET base == [pk |-> c.movement_pk_counter,
                 name |-> <<"Related ", Capitalize(movement_type)>>,
                 category_data_movements_id |-> category_data_id,
                 type |-> Upper(movement_type), is_related_only |-> FALSE]
        mov  == IF movement_type = "explanation"
                THEN base @@ [related_explanation_slug |-> related_slug]
                ELSE base @@ [related_sequence_slug |-> related_slug]
    IN  [c EXCEPT !.categories_movements = Append(@, mov),
                  !.movement_pk_counter = @ + 1]

\* The movement of a data record without any related slug: none is created.
BaselineMovementAll(c, category_data_id) == c

\* "if explanation_slug ...: ... elif sequence_slug ...: ..."
MovementForDataAll(c, row, category_data_id) ==
    IF row.explanation_slug # NaN
    THEN create_category_movement_all(c, category_data_id,
                                      Strip(row.explanation_slug), "explanation")
    ELSE IF row.sequence_slug # NaN
         THEN create_category_movement_all(c, category_data_id,
                                           Strip(row.sequence_slug), "sequence")
         ELSE BaselineMovementAll(c, category_data_id)

\* create_category_data, create_category_data_url and the movement of one
\* direction of a row.
AddDataAll(c, row, title, direction, filename) ==
    LET data == [pk |-> c.data_pk_counter, title |-> title,
                 category_id |-> c.last_category_id, direction |-> direction]
        url  == [pk |-> c.data_pk_counter,
                 path |-> <<"odissi/sequence/">> \o Strip(filename),
                 type |-> "video", category_data_id |-> c.data_pk_counter]
        c1   == [c EXCEPT !.categories_data = Append(@, data),
                          !.categories_data_urls = Append(@, url),
                          !.data_pk_counter = @ + 1]
    IN  MovementForDataAll(c1, row, c.data_pk_counter)

\* row.get(col) of a column the workbook lacks: None.
Absent == <<"None">>

\* row.get(col): the cell of the column, NaN when it is blank.
RowGet(cells, col) == IF col \in DOMAIN cells THEN cells[col] ELSE Absent

\* Python truth of a cell value: None and '' are false, a string and the float
\* nan of a blank cell are true.
Truthy(v) == v # Absent /\ v # Empty

\* "row.get(a) or row.get(b) or ...": the first true value, else the last one.
RECURSIVE OrChain(_, _)
OrChain(cells, cols) ==
    IF Len(cols) = 1 \/ Truthy(RowGet(cells, Head(cols)))
    THEN RowGet(cells, Head(cols))
    ELSE OrChain(cells, Tail(cols))

\* The column names tried for the front file, in the order of the expression.
FrontAliases ==
    << "Front", "front", "movie file name", "Movie File Name", "movie_file_name",
       "Movie_File_Name", "FileName", "filename", "FILENAME" >>

\* process_row of convert_multi_level_categories_all.py
process_row_all(c0, row) ==
    LET c1 == LevelLoopAll([c0 EXCEPT !.last_category_id = None], row.levels, 1)
    IN  IF c1.last_category_id = None THEN c1
        ELSE
        LET title == TitleAll(row.levels, Len(row.levels))
            front_file == OrChain(row.front, FrontAliases)
            c2 == IF Truthy(front_file) /\ front_file # NaN
                  THEN AddDataAll(c1, row, title, <<"front">>, front_file) ELSE c1
        IN  IF row.side # NaN
            THEN AddDataAll(c2, row, title, <<"side">>, row.side) ELSE c2

(***************************************************************************)
(* State of convert_multi_level_categories_all.py: the fields of the       *)
(* CategoryConverter, then the locals of generate_categories_json and main.*)
(***************************************************************************)
VARIABLES
    al_pk_counter, al_data_pk_counter, al_movement_pk_counter, al_pk_map,
    al_categories, al_categories_data, al_categories_data_urls,
    al_categories_movements, al_current_path, al_sort_counters,
    al_excel_files,     \* what each file named to main() holds
    al_pc,      \* "idle", "next", "rows", "exited", "failed" (exception caught), "saved"
    al_table,   \* files of excel_files taken so far
    al_nrows    \* rows processed so far

varsAll ==
    << al_pk_counter, al_data_pk_counter, al_movement_pk_counter, al_pk_map,
       al_categories, al_categories_data, al_categories_data_urls,
       al_categories_movements, al_current_path, al_sort_counters,
       al_excel_files, al_pc, al_table, al_nrows >>

(***************************************************************************)
(* State of csv_to_json_v3.py: the variables of __main__, then the locals  *)
(* of the running call of generate_categories.                             *)
(***************************************************************************)
VARIABLES
    all_categories, current_pk, used_slugs, pk_to_slug,
    all_categories_data, all_categories_data_urls, all_categories_movements,
    current_data_pk, current_movements_pk,
    new_cats,           \* the category list the last call returned
    v3_table,           \* tables of files_and_types finished so far
    v3_pc,              \* "main", "call", "raised" (uncaught exception), "written"
    v3_nrows,           \* rows read so far in the run
    rows_read,          \* the rows the reader has yielded in the running call
    categories, next_pk, parent_map,
    current_parent_pk, current_child_pk, current_grandchild_pk,
    sort_order_level1, overview_slugs

varsV3 ==
    << all_categories, current_pk, used_slugs, pk_to_slug,
       all_categories_data, all_categories_data_urls, all_categories_movements,
       current_data_pk, current_movements_pk, new_cats, v3_table, v3_pc, v3_nrows,
       rows_read, categories, next_pk, parent_map,
       current_parent_pk, current_child_pk, current_grandchild_pk,
       sort_order_level1, overview_slugs >>

(***************************************************************************)
(* State of convert_multi_level_categories.py: the fields of the           *)
(* CategoryConverter, then the locals of generate_categories_json.         *)
(***************************************************************************)
VARIABLES
    pk_counter_categories, pk_counter_data, pk_counter_data_urls,
    pk_counter_movements, pk_map, explanation_slug_map,
    sort_counters,
    cv_categories,              \* all_categories
    cv_categories_data,         \* all_categories_data
    cv_categories_data_urls,    \* all_categories_data_urls
    cv_categories_movements,    \* all_categories_movements
    cv_pc,      \* "idle", "exited" (main returned early), "main", "next" (between
                \* tables), "rows" (in df.iterrows), "raised" (uncaught
                \* exception), "returned", "saved"
    cv_missing,         \* the files main() does not find
    explanation_files,  \* what the explanation files held when they were loaded
    cv_recalled,        \* generate_categories_json runs again on a used converter
    cv_table,   \* entries of files_and_types taken so far
    cv_nrows,   \* rows processed so far
    cv_prev     \* the last row given to process_row and the state it started from

varsCv ==
    << pk_counter_categories, pk_counter_data, pk_counter_data_urls,
       pk_counter_movements, pk_map, explanation_slug_map, sort_counters,
       cv_categories, cv_categories_data, cv_categories_data_urls,
       cv_categories_movements, cv_pc, cv_missing, explanation_files,
       cv_recalled, cv_table, cv_nrows, cv_prev >>

\* files_and_types of main()
files_and_types ==
    << "context_menu", "sequence_menu", "unit_menu",
       "explanation_sequence", "explanation_unit" >>

\* The number of level columns in the header of each table.
LevelColumnCount ==
    [context_menu |-> 1, sequence_menu |-> 2, unit_menu |-> 2,
     explanation_sequence |-> 2, explanation_unit |-> 1]

\* Level cells of the rows of a table with n level columns.
LevelCellsCv(n) ==
    IF n = 1
    THEN { <<NaN>>, <<NameA>>, <<NameB>> }
    ELSE { <<NameA, NaN>>, <<NameA, NameA>>, <<NameA, NameB>>, <<NaN, NameB>> }

\* The media and timing cells of a row: (front, side, start_time, end_time).
MediaCellsCv ==
    { <<NaN, NaN, TimeNaN, TimeNaN>>,
      <<FileCell, FileCell, TimeNaN, TimeNaN>>,
      <<FileCell, NaN, TimeInt(0), TimeInt(2000)>>,
      <<FileCell, NaN, TimeText, TimeInt(2000)>> }

RowsCv(n) ==
    { [levels |-> l, front |-> m[1], side |-> m[2],
       start_time |-> m[3], end_time |-> m[4]] :
      l \in LevelCellsCv(n), m \in MediaCellsCv }

\* The rows of every table of the run.
AllRowsCv == RowsCv(1) \cup RowsCv(2)

\* What the two explanation files hold when generate_categories_json loads them.
ExplanationFilesChoices ==
    { [explanation_sequence |-> Unreadable, explanation_unit |-> Unreadable],
      [explanation_sequence |-> << <<NameA, NameB>>, <<NameA, NaN>>, <<NaN, NameB>> >>,
       explanation_unit |-> << <<NameA>>, <<NaN>> >>] }

\* No explanation file has been loaded yet.
NoFiles == [explanation_sequence |-> Unreadable, explanation_unit |-> Unreadable]

\* The files main() may fail to find.
MissingChoices == { {}, {"unit_menu"}, {"explanation_unit"} }

\* reset_pk_counters without its assignments.
KeepPkCounters(c) == c

\* reset_pk_counters
reset_pk_counters(c) ==
    [c EXCEPT !.pk_counter_categories = PkSeedCategories,
              !.pk_counter_data = PkSeedData,
              !.pk_counter_data_urls = PkSeedDataUrls,
              !.pk_counter_movements = PkSeedMovements]

\* The converter state process_row works on.
ConverterState ==
    [ pk_counter_categories |-> pk_counter_categories,
      pk_counter_data |-> pk_counter_data,
      pk_counter_data_urls |-> pk_counter_data_urls,
      pk_counter_movements |-> pk_counter_movements,
      pk_map |-> pk_map, sort_counters |-> sort_counters,
      categories |-> cv_categories, categories_data |-> cv_categories_data,
      categories_data_urls |-> cv_categories_data_urls,
      categories_movements |-> cv_categories_movements, raised |-> FALSE ]

NoRow == [file_type |-> "none"]

\* CategoryConverter()
InitCv ==
    /\ pk_counter_categories = PkSeedCategories
    /\ pk_counter_data = PkSeedData
    /\ pk_counter_data_urls = PkSeedDataUrls
    /\ pk_counter_movements = PkSeedMovements
    /\ pk_map = EmptyDict
    /\ explanation_slug_map = EmptyDict
    /\ sort_counters = EmptyDict
    /\ cv_categories = <<>>
    /\ cv_categories_data = <<>>
    /\ cv_categories_data_urls = <<>>
    /\ cv_categories_movements = <<>>
    /\ cv_pc = "idle"
    /\ cv_missing = {}
    /\ explanation_files = NoFiles
    /\ cv_recalled = FALSE
    /\ cv_table = 0
    /\ cv_nrows = 0
    /\ cv_prev = NoRow

\* main() up to the call of generate_categories_json: every file of
\* files_and_types and of explanation_files is opened once, and main returns at
\* the first one that is not found.
CvMain(missing) ==
    /\ cv_pc = "idle"
    /\ cv_missing' = missing
    /\ cv_pc' = IF missing # {} THEN "exited" ELSE "main"
    /\ UNCHANGED << pk_counter_categories, pk_counter_data, pk_counter_data_urls,
                    pk_counter_movements, pk_map, explanation_slug_map, sort_counters,
                    cv_categories, cv_categories_data, cv_categories_data_urls,
                    cv_categories_movements, explanation_files, cv_recalled,
                    cv_table, cv_nrows, cv_prev >>
    /\ UNCHANGED << varsV3, varsAll >>

\* generate_categories_json up to its loop over files_and_types.
CvGenerate(files) ==
    /\ cv_pc \in {"main", "saved"}
    /\ cv_recalled' = (cv_pc = "saved")
    /\ explanation_files' = files
    /\ \E c \in { reset_pk_counters(ConverterState) } :
          /\ pk_counter_categories' = c.pk_counter_categories
          /\ pk_counter_data' = c.pk_counter_data
          /\ pk_counter_data_urls' = c.pk_counter_data_urls
          /\ pk_counter_movements' = c.pk_counter_movements
    /\ pk_map' = EmptyDict
    /\ explanation_slug_map' =
           load_explanation_slugs(explanation_slug_map, files,
                                  <<"explanation_sequence", "explanation_unit">>)
    /\ sort_counters' = EmptyDict
    /\ cv_categories' = <<>>
    /\ cv_categories_data' = <<>>
    /\ cv_categories_data_urls' = <<>>
    /\ cv_categories_movements' = <<>>
    /\ cv_pc' = "next"
    /\ cv_table' = 0
    /\ cv_prev' = NoRow
    /\ UNCHANGED << cv_nrows, cv_missing >>
    /\ UNCHANGED << varsV3, varsAll >>

\* The next table cannot be read, is empty, or has no level column: continue.
CvSkipTable ==
    /\ cv_pc = "next"
    /\ cv_table < Len(files_and_types)
    /\ cv_table' = cv_table + 1
    /\ UNCHANGED << pk_counter_categories, pk_counter_data, pk_counter_data_urls,
                    pk_counter_movements, pk_map, explanation_slug_map, sort_counters,
                    cv_categories, cv_categories_data, cv_categories_data_urls,
                    cv_categories_movements, cv_pc, cv_nrows, cv_prev >>
    /\ UNCHANGED << cv_missing, explanation_files, cv_recalled >>
    /\ UNCHANGED << varsV3, varsAll >>

\* The next table is read and has level columns: its rows follow.
CvOpenTable ==
    /\ cv_pc = "next"
    /\ cv_table < Len(files_and_types)
    /\ cv_table' = cv_table + 1
    /\ cv_pc' = "rows"
    /\ UNCHANGED << pk_counter_categories, pk_counter_data, pk_counter_data_urls,
                    pk_counter_movements, pk_map, explanation_slug_map, sort_counters,
                    cv_categories, cv_categories_data, cv_categories_data_urls,
                    cv_categories_movements, cv_nrows, cv_prev >>
    /\ UNCHANGED << cv_missing, explanation_files, cv_recalled >>
    /\ UNCHANGED << varsV3, varsAll >>

\* One call of process_row from "for _, row in df.iterrows()".
CvRow(row) ==
    /\ cv_pc = "rows"
    /\ cv_nrows < MaxRows
    /\ row \in RowsCv(LevelColumnCount[files_and_types[cv_table]])
    /\ \E c \in {process_row(ConverterState, row, files_and_types[cv_table],
                             explanation_slug_map)} :
           /\ pk_counter_categories' = c.pk_counter_categories
           /\ pk_counter_data' = c.pk_counter_data
           /\ pk_counter_data_urls' = c.pk_counter_data_urls
           /\ pk_counter_movements' = c.pk_counter_movements
           /\ pk_map' = c.pk_map
           /\ sort_counters' = c.sort_counters
           /\ cv_categories' = c.categories
           /\ cv_categories_data' = c.categories_data
           /\ cv_categories_data_urls' = c.categories_data_urls
           /\ cv_categories_movements' = c.categories_movements
           /\ cv_pc' = IF c.raised THEN "raised" ELSE cv_pc
    /\ cv_prev' = [file_type |-> files_and_types[cv_table], row |-> row,
                   pk_map |-> pk_map, pk_counter_data |-> pk_counter_data,
                   pk_counter_movements |-> pk_counter_movements]
    /\ cv_nrows' = cv_nrows + 1
    /\ UNCHANGED << explanation_slug_map, cv_table >>
    /\ UNCHANGED << cv_missing, explanation_files, cv_recalled >>
    /\ UNCHANGED << varsV3, varsAll >>

\* df.iterrows() is exhausted.
CvTableDone ==
    /\ cv_pc = "rows"
    /\ cv_pc' = "next"
    /\ UNCHANGED << pk_counter_categories, pk_counter_data, pk_counter_data_urls,
                    pk_counter_movements, pk_map, explanation_slug_map, sort_counters,
                    cv_categories, cv_categories_data, cv_categories_data_urls,
                    cv_categories_movements, cv_table, cv_nrows, cv_prev >>
    /\ UNCHANGED << cv_missing, explanation_files, cv_recalled >>
    /\ UNCHANGED << varsV3, varsAll >>

\* return (all_categories, all_categories_data, ...)
CvReturn ==
    /\ cv_pc = "next"
    /\ cv_table = Len(files_and_types)
    /\ cv_pc' = "returned"
    /\ UNCHANGED << pk_counter_categories, pk_counter_data, pk_counter_data_urls,
                    pk_counter_movements, pk_map, explanation_slug_map, sort_counters,
                    cv_categories, cv_categories_data, cv_categories_data_urls,
                    cv_categories_movements, cv_table, cv_nrows, cv_prev >>
    /\ UNCHANGED << cv_missing, explanation_files, cv_recalled >>
    /\ UNCHANGED << varsV3, varsAll >>

\* main() saves the four lists.
CvSave ==
    /\ cv_pc = "returned"
    /\ cv_pc' = "saved"
    /\ UNCHANGED << pk_counter_categories, pk_counter_data, pk_counter_data_urls,
                    pk_counter_movements, pk_map, explanation_slug_map, sort_counters,
                    cv_categories, cv_categories_data, cv_categories_data_urls,
                    cv_categories_movements, cv_table, cv_nrows, cv_prev >>
    /\ UNCHANGED << cv_missing, explanation_files, cv_recalled >>
    /\ UNCHANGED << varsV3, varsAll >>

NextCv ==
    \/ \E missing \in MissingChoices : CvMain(missing)
    \/ \E files \in ExplanationFilesChoices : CvGenerate(files)
    \/ CvSkipTable
    \/ CvOpenTable
    \/ \E row \in AllRowsCv : CvRow(row)
    \/ CvTableDone
    \/ CvReturn
    \/ CvSave

(***************************************************************************)
(* Inputs and actions of csv_to_json_v3.py                                 *)
(***************************************************************************)
\* The level cells of the rows the model reads: blank rows, roots, sparse
\* children at each depth, dense paths, a skipped intermediate level.
LevelCellsV3 ==
    { <<Empty, Empty, Empty, Empty>>,
      <<NameA, Empty, Empty, Empty>>,
      <<NameB, Empty, Empty, Empty>>,
      <<Empty, NameA, Empty, Empty>>,
      <<Empty, NameLowerA, Empty, Empty>>,
      <<NameA, NameA, Empty, Empty>>,
      <<Empty, Empty, NameA, Empty>>,
      <<Empty, Empty, Empty, NameA>>,
      <<NameA, Empty, NameA, Empty>>,
      <<NameA, NameA, NameA, NameA>> }

\* The media cells (front, side, movie) of the rows the model reads.
MediaCellsV3 ==
    { <<Empty, Empty, Empty>>,
      <<FileCell, Empty, Empty>>,
      <<Empty, FileCell, Empty>>,
      <<FileCell, FileCell, FileCell>> }

RowsV3 ==
    { [level1 |-> l[1], level2 |-> l[2], level3 |-> l[3], level4 |-> l[4],
       front |-> m[1], side |-> m[2], movie |-> m[3]] :
      l \in LevelCellsV3, m \in MediaCellsV3 }

\* The state a call of generate_categories works on.
CallStateV3 ==
    [ categories |-> categories, next_pk |-> next_pk, used_slugs |-> used_slugs,
      pk_to_slug |-> pk_to_slug, parent_map |-> parent_map,
      current_parent_pk |-> current_parent_pk, current_child_pk |-> current_child_pk,
      current_grandchild_pk |-> current_grandchild_pk,
      sort_order_level1 |-> sort_order_level1, overview_slugs |-> overview_slugs,
      all_categories_data |-> all_categories_data,
      all_categories_data_urls |-> all_categories_data_urls,
      all_categories_movements |-> all_categories_movements,
      current_data_pk |-> current_data_pk, current_movements_pk |-> current_movements_pk,
      final_category_pk_for_this_row |-> None, raised |-> FALSE ]

InitV3 ==
    /\ all_categories = <<>>
    /\ current_pk = StartPkV3
    /\ used_slugs = {}
    /\ pk_to_slug = EmptyDict
    /\ all_categories_data = <<>>
    /\ all_categories_data_urls = <<>>
    /\ all_categories_movements = <<>>
    /\ current_data_pk = DataPkStartV3
    /\ current_movements_pk = MovementsPkStartV3
    /\ new_cats = <<>>
    /\ v3_table = 0
    /\ v3_pc = "main"
    /\ v3_nrows = 0
    /\ rows_read = <<>>
    /\ categories = <<>>
    /\ next_pk = StartPkV3
    /\ parent_map = EmptyDict
    /\ current_parent_pk = None
    /\ current_child_pk = None
    /\ current_grandchild_pk = None
    /\ sort_order_level1 = 1
    /\ overview_slugs = EmptyDict

\* The value of sort_order_level1 when a call starts.
InitialSortOrderLevel1 == 1

\* __main__ calls generate_categories for the next table: the locals are set up.
V3Call ==
    /\ v3_pc = "main"
    /\ v3_table < Len(files_and_types_v3)
    /\ v3_pc' = "call"
    /\ categories' = <<>>
    /\ next_pk' = current_pk
    /\ parent_map' = EmptyDict
    /\ current_parent_pk' = None
    /\ current_child_pk' = None
    /\ current_grandchild_pk' = None
    /\ sort_order_level1' = InitialSortOrderLevel1
    /\ overview_slugs' = EmptyDict
    /\ rows_read' = <<>>
    /\ UNCHANGED << all_categories, current_pk, used_slugs, pk_to_slug,
                    all_categories_data, all_categories_data_urls,
                    all_categories_movements, current_data_pk, current_movements_pk,
                    new_cats, v3_table, v3_nrows >>
    /\ UNCHANGED << varsCv, varsAll >>

\* One iteration of "for row in reader"; an exception of ensure_unique_slug
\* leaves generate_categories and __main__ (nothing catches it).
V3Row(row) ==
    /\ v3_pc = "call"
    /\ v3_nrows < MaxRows
    /\ \E s \in {ProcessRowV3(CallStateV3, row, files_and_types_v3[v3_table + 1])} :
           /\ categories' = s.categories
           /\ next_pk' = s.next_pk
           /\ used_slugs' = s.used_slugs
           /\ pk_to_slug' = s.pk_to_slug
           /\ parent_map' = s.parent_map
           /\ current_parent_pk' = s.current_parent_pk
           /\ current_child_pk' = s.current_child_pk
           /\ current_grandchild_pk' = s.current_grandchild_pk
           /\ sort_order_level1' = s.sort_order_level1
           /\ overview_slugs' = s.overview_slugs
           /\ all_categories_data' = s.all_categories_data
           /\ all_categories_data_urls' = s.all_categories_data_urls
           /\ all_categories_movements' = s.all_categories_movements
           /\ current_data_pk' = s.current_data_pk
           /\ current_movements_pk' = s.current_movements_pk
           /\ v3_pc' = IF s.raised THEN "raised" ELSE "call"
    /\ v3_nrows' = v3_nrows + 1
    /\ rows_read' = Append(rows_read, row)
    /\ UNCHANGED << all_categories, current_pk, new_cats, v3_table >>
    /\ UNCHANGED << varsCv, varsAll >>

\* all_categories_movements.extend(new_movements): new_movements is the very
\* list that was passed in, so the list is extended by itself.
ExtendMovementsV3(movs, new_movements) == movs \o new_movements

\* The reader is exhausted: the final pass, the return, and the lines of
\* __main__ that take the result.
V3Return ==
    /\ v3_pc = "call"
    /\ LET returned == FinalPassV3(categories, parent_map)
       IN  /\ new_cats' = returned
           /\ all_categories' = all_categories \o returned
    /\ current_pk' = next_pk
    /\ all_categories_movements' =
           ExtendMovementsV3(all_categories_movements, all_categories_movements)
    /\ v3_table' = v3_table + 1
    /\ v3_pc' = "main"
    /\ categories' = <<>>
    /\ parent_map' = EmptyDict
    /\ current_parent_pk' = None
    /\ current_child_pk' = None
    /\ current_grandchild_pk' = None
    /\ sort_order_level1' = InitialSortOrderLevel1
    /\ overview_slugs' = EmptyDict
    /\ rows_read' = <<>>
    /\ UNCHANGED << used_slugs, pk_to_slug, all_categories_data,
                    all_categories_data_urls, current_data_pk, current_movements_pk,
                    next_pk, v3_nrows >>
    /\ UNCHANGED << varsCv, varsAll >>

\* The four json.dump calls at the end of __main__.
V3Write ==
    /\ v3_pc = "main"
    /\ v3_table = Len(files_and_types_v3)
    /\ v3_pc' = "written"
    /\ UNCHANGED << all_categories, current_pk, used_slugs, pk_to_slug,
                    all_categories_data, all_categories_data_urls,
                    all_categories_movements, current_data_pk, current_movements_pk,
                    new_cats, v3_table, v3_nrows, rows_read, categories, next_pk,
                    parent_map, current_parent_pk, current_child_pk,
                    current_grandchild_pk, sort_order_level1, overview_slugs >>
    /\ UNCHANGED << varsCv, varsAll >>

NextV3 ==
    \/ V3Call
    \/ \E row \in RowsV3 : V3Row(row)
    \/ V3Return
    \/ V3Write

(***************************************************************************)
(* Inputs and actions of convert_multi_level_categories_all.py             *)
(***************************************************************************)
\* A related-slug cell of a row.
SlugCell == <<"s">>

\* The level cells of a row of a workbook with the columns level1, level2.
LevelCellsAll == { <<NameA, NaN>>, <<NameA, NameB>>, <<NaN, NameB>>, <<NaN, NaN>> }

\* The front alias columns of a workbook and their cells in a row: none, one
\* column (blank or populated), or the columns Front and front together.
FrontNone == [x \in {} |-> NaN]
FrontBlank == [x \in {"Front"} |-> NaN]
FrontOnly == [x \in {"Front"} |-> FileCell]
MovieFileNameOnly == [x \in {"movie file name"} |-> FileCell]
FrontBlankThenFront == [x \in {"Front", "front"} |-> IF x = "Front" THEN NaN ELSE FileCell]

\* The cells (front aliases, side, explanation_slug, sequence_slug) of a row.
MediaCellsAll ==
    { <<FrontNone, NaN, NaN, NaN>>, <<FrontBlank, NaN, NaN, NaN>>,
      <<FrontOnly, NaN, NaN, NaN>>,
      <<FrontOnly, NaN, SlugCell, NaN>>, <<FrontOnly, FileCell, NaN, SlugCell>>,
      <<MovieFileNameOnly, NaN, NaN, NaN>>, <<FrontBlankThenFront, NaN, SlugCell, NaN>>,
      <<FrontNone, FileCell, NaN, NaN>> }

RowsAll ==
    { [levels |-> l, front |-> m[1], side |-> m[2],
       explanation_slug |-> m[3], sequence_slug |-> m[4]] :
      l \in LevelCellsAll, m \in MediaCellsAll }

\* A file named to main(): a workbook with level columns, a workbook without
\* any, or a name no file has.
FileKindsAll == { "levels", "nolevels", "missing" }

ExcelFilesChoices ==
    { <<k>> : k \in FileKindsAll } \cup { <<k1, k2>> : k1, k2 \in FileKindsAll }

\* The converter state process_row works on.
ConverterStateAll ==
    [ pk_counter |-> al_pk_counter, data_pk_counter |-> al_data_pk_counter,
      movement_pk_counter |-> al_movement_pk_counter, pk_map |-> al_pk_map,
      categories |-> al_categories, categories_data |-> al_categories_data,
      categories_data_urls |-> al_categories_data_urls,
      categories_movements |-> al_categories_movements,
      current_path |-> al_current_path, sort_counters |-> al_sort_counters,
      last_category_id |-> None ]

InitAll ==
    /\ al_pk_counter = PkSeedAll
    /\ al_data_pk_counter = DataPkSeedAll
    /\ al_movement_pk_counter = MovementPkSeedAll
    /\ al_pk_map = EmptyDict
    /\ al_categories = <<>>
    /\ al_categories_data = <<>>
    /\ al_categories_data_urls = <<>>
    /\ al_categories_movements = <<>>
    /\ al_current_path = <<>>
    /\ al_sort_counters = EmptyDict
    /\ al_excel_files = <<>>
    /\ al_pc = "idle"
    /\ al_table = 0
    /\ al_nrows = 0

\* main(): the existence check of every named file, then the call of
\* generate_categories_json up to its loop over the files.
AllMain(files) ==
    /\ al_pc = "idle"
    /\ al_excel_files' = files
    /\ al_pc' = IF \E k \in 1..Len(files) : files[k] = "missing"
                THEN "exited" ELSE "next"
    /\ UNCHANGED << al_pk_counter, al_data_pk_counter, al_movement_pk_counter,
                    al_pk_map, al_categories, al_categories_data,
                    al_categories_data_urls, al_categories_movements,
                    al_current_path, al_sort_counters, al_table, al_nrows >>
    /\ UNCHANGED << varsCv, varsV3 >>

\* The next file has level columns: "current_path = [''] * len(level_columns)".
AllOpenTable ==
    /\ al_pc = "next"
    /\ al_table < Len(al_excel_files)
    /\ al_excel_files[al_table + 1] = "levels"
    /\ al_table' = al_table + 1
    /\ al_current_path' = <<Empty, Empty>>
    /\ al_pc' = "rows"
    /\ UNCHANGED << al_pk_counter, al_data_pk_counter, al_movement_pk_counter,
                    al_pk_map, al_categories, al_categories_data,
                    al_categories_data_urls, al_categories_movements,
                    al_sort_counters, al_excel_files, al_nrows >>
    /\ UNCHANGED << varsCv, varsV3 >>

\* The next file has no level column: get_level_columns raises ValueError,
\* which leaves generate_categories_json and is caught at the end of main().
AllNoLevelColumns ==
    /\ al_pc = "next"
    /\ al_table < Len(al_excel_files)
    /\ al_excel_files[al_table + 1] = "nolevels"
    /\ al_table' = al_table + 1
    /\ al_pc' = "failed"
    /\ UNCHANGED << al_pk_counter, al_data_pk_counter, al_movement_pk_counter,
                    al_pk_map, al_categories, al_categories_data,
                    al_categories_data_urls, al_categories_movements,
                    al_current_path, al_sort_counters, al_excel_files, al_nrows >>
    /\ UNCHANGED << varsCv, varsV3 >>

\* One turn of "for _, row in df.iterrows()".
AllRow(row) ==
    /\ al_pc = "rows"
    /\ al_nrows < MaxRows
    /\ \E c \in { process_row_all(ConverterStateAll, row) } :
          /\ al_pk_counter' = c.pk_counter
          /\ al_data_pk_counter' = c.data_pk_counter
          /\ al_movement_pk_counter' = c.movement_pk_counter
          /\ al_pk_map' = c.pk_map
          /\ al_categories' = c.categories
          /\ al_categories_data' = c.categories_data
          /\ al_categories_data_urls' = c.categories_data_urls
          /\ al_categories_movements' = c.categories_movements
          /\ al_current_path' = c.current_path
          /\ al_sort_counters' = c.sort_counters
    /\ al_nrows' = al_nrows + 1
    /\ UNCHANGED << al_excel_files, al_pc, al_table >>
    /\ UNCHANGED << varsCv, varsV3 >>

\* The rows of the file are exhausted.
AllTableDone ==
    /\ al_pc = "rows"
    /\ al_pc' = "next"
    /\ UNCHANGED << al_pk_counter, al_data_pk_counter, al_movement_pk_counter,
                    al_pk_map, al_categories, al_categories_data,
                    al_categories_data_urls, al_categories_movements,
                    al_current_path, al_sort_counters, al_excel_files, al_table,
                    al_nrows >>
    /\ UNCHANGED << varsCv, varsV3 >>

\* generate_categories_json returns and main() saves the four lists.
AllReturn ==
    /\ al_pc = "next"
    /\ al_table = Len(al_excel_files)
    /\ al_pc' = "saved"
    /\ UNCHANGED << al_pk_counter, al_data_pk_counter, al_movement_pk_counter,
                    al_pk_map, al_categories, al_categories_data,
                    al_categories_data_urls, al_categories_movements,
                    al_current_path, al_sort_counters, al_excel_files, al_table,
                    al_nrows >>
    /\ UNCHANGED << varsCv, varsV3 >>

NextAll ==
    \/ \E files \in ExcelFilesChoices : AllMain(files)
    \/ AllOpenTable
    \/ AllNoLevelColumns
    \/ \E row \in RowsAll : AllRow(row)
    \/ AllTableDone
    \/ AllReturn

(***************************************************************************)
(* Specifications: one per program, over the same state.                   *)
(***************************************************************************)
vars == << varsCv, varsV3, varsAll >>

Init == InitCv /\ InitV3 /\ InitAll

\* csv_to_json_v3.py
SpecV3 == Init /\ [][NextV3]_vars

\* convert_multi_level_categories.py
SpecConverter == Init /\ [][NextCv]_vars

\* convert_multi_level_categories_all.py
SpecAll == Init /\ [][NextAll]_vars


(***************************************************************************)
(* Properties of csv_to_json_v3.py                                         *)
(***************************************************************************)
\* Every category record appended so far in the run, over all tables.
CategoriesSoFarV3 == all_categories \o categories

\* A row that populates exactly level1 and level2.
TwoLevelRowV3(r) ==
    /\ Strip(r.level1) # Empty /\ Strip(r.level2) # Empty
    /\ Strip(r.level3) = Empty /\ Strip(r.level4) = Empty

\* The categories of the running call that sit at the path (l1, l2).
CategoriesAtPathV3(l1, l2) ==
    { k \in 1..Len(categories) :
        /\ categories[k].name = l2
        /\ \E m \in 1..Len(categories) :
              /\ categories[m].pk = categories[k].parent
              /\ categories[m].name = l1
              /\ categories[m].parent = None }

\* C2: when the same (level1, level2) path is read in two rows of a table, one
\* with only a front file and one with only a side file, the path has exactly
\* one category, and a front and a side CategoriesData record both carry its pk.
C2_SamePathSharesOneCategory ==
    \A i, j \in 1..Len(rows_read) :
        ( /\ i < j
          /\ TwoLevelRowV3(rows_read[i]) /\ TwoLevelRowV3(rows_read[j])
          /\ Strip(rows_read[i].level1) = Strip(rows_read[j].level1)
          /\ Strip(rows_read[i].level2) = Strip(rows_read[j].level2)
          /\ rows_read[i].front # Empty /\ rows_read[i].side = Empty
          /\ rows_read[i].movie = Empty
          /\ rows_read[j].front = Empty /\ rows_read[j].side # Empty
          /\ rows_read[j].movie = Empty )
        => LET P == CategoriesAtPathV3(Strip(rows_read[i].level1),
                                       Strip(rows_read[i].level2))
           IN  /\ Cardinality(P) = 1
               /\ \A k \in P :
                    \E df, ds \in 1..Len(all_categories_data) :
                        /\ all_categories_data[df].direction = <<"front">>
                        /\ all_categories_data[ds].direction = <<"side">>
                        /\ all_categories_data[df].category_id = categories[k].pk
                        /\ all_categories_data[ds].category_id = categories[k].pk

\* C3: in the list a call of generate_categories returns, a category has
\* has_data = 0 exactly when some category of the list names it as parent, and
\* has_data = 1 otherwise.
C3_HasDataIffNoChildren ==
    \A i \in 1..Len(new_cats) :
        /\ new_cats[i].has_data \in {0, 1}
        /\ (new_cats[i].has_data = 0) <=>
               (\E j \in 1..Len(new_cats) : new_cats[j].parent = new_cats[i].pk)

\* A call has returned a list holding a parent (has_data 0) and a leaf.
C3_Witness ==
    /\ v3_pc = "main"
    /\ \E i, j \in 1..Len(new_cats) :
          /\ new_cats[i].has_data = 0
          /\ new_cats[j].has_data = 1
          /\ new_cats[j].parent = new_cats[i].pk

\* C5: at every point of a run over several tables the slugs of all category
\* records appended so far are pairwise distinct, and used_slugs is exactly the
\* set of those slugs.
C5_SlugsDistinctAcrossTables ==
    LET cats == CategoriesSoFarV3
    IN  /\ \A i, j \in 1..Len(cats) : i # j => cats[i].slug # cats[j].slug
        /\ used_slugs = { cats[i].slug : i \in 1..Len(cats) }

\* The slug suffix of the table a category type belongs to.
SuffixOfTypeV3(type) ==
    LET k == CHOOSE n \in 1..Len(files_and_types_v3) : files_and_types_v3[n].cat_type = type
    IN  files_and_types_v3[k].slug_suffix

\* Categories of two tables exist, and one of them collided and was renamed
\* with its ancestor's slug.
C5_Witness ==
    LET cats == CategoriesSoFarV3
    IN  /\ \E i, j \in 1..Len(cats) : cats[i].type # cats[j].type
        /\ \E i \in 1..Len(cats) :
              cats[i].slug # slugify_v3(cats[i].name) \o SuffixOfTypeV3(cats[i].type)

\* C8: every set of categories with the same parent (the roots of all tables of
\* the run being one such set) has sort values 1..N in first-seen order.
C8_SortContiguousAmongSiblings ==
    LET cats == CategoriesSoFarV3
    IN  \A i \in 1..Len(cats) :
           cats[i].sort =
              1 + Cardinality({ j \in 1..(i - 1) : cats[j].parent = cats[i].parent })

\* C9: the category a CategoriesData record refers to has has_data = 1 once its
\* table's final pass has run.
C9_MediaOnlyOnLeaves ==
    \A d \in 1..Len(all_categories_data) :
        \A c \in 1..Len(all_categories) :
            all_categories[c].pk = all_categories_data[d].category_id
                => all_categories[c].has_data = 1


(***************************************************************************)
(* Properties of convert_multi_level_categories.py                         *)
(***************************************************************************)
\* The registry key of the prefix of length i of a row's level cells.
PrefixKey(levels, i) ==
    Join(<<"|">>, [k \in 1..i |-> IF levels[k] # NaN THEN Strip(levels[k]) ELSE Empty])

\* The populated level columns of a row.
Populated(levels) == { i \in 1..Len(levels) : levels[i] # NaN }

\* The deepest populated level column of a row.
LeafIndex(levels) == CHOOSE i \in Populated(levels) : \A j \in Populated(levels) : j <= i

\* process_row has been called at least once in this run.
RowProcessed == cv_prev.file_type # "none"

\* C1: the registry maps each '|'-joined path prefix to at most one category
\* id: a row never overwrites an entry that existed before it, every populated
\* prefix of the row is registered, and there are exactly as many category
\* records as registered prefixes (no second record for a repeated prefix).
C1_OneCategoryPerPrefix ==
    /\ Cardinality(DOMAIN pk_map) = Len(cv_categories)
    /\ { pk_map[k] : k \in DOMAIN pk_map }
          = { cv_categories[i].pk : i \in 1..Len(cv_categories) }
    /\ \A i, j \in 1..Len(cv_categories) :
          i # j => cv_categories[i].pk # cv_categories[j].pk
    /\ RowProcessed =>
          /\ \A k \in DOMAIN cv_prev.pk_map :
                k \in DOMAIN pk_map /\ pk_map[k] = cv_prev.pk_map[k]
          /\ \A i \in Populated(cv_prev.row.levels) :
                PrefixKey(cv_prev.row.levels, i) \in DOMAIN pk_map

\* The last row repeated a prefix that an earlier row had registered.
C1_Witness ==
    /\ RowProcessed
    /\ \E i \in Populated(cv_prev.row.levels) :
          PrefixKey(cv_prev.row.levels, i) \in DOMAIN cv_prev.pk_map

\* C4: when generate_categories_json returns, a category has has_data = 0 if
\* some emitted category names it as parent and has_data = 1 otherwise.
C4_HasDataIffNoChildren ==
    cv_pc = "returned" =>
        \A i \in 1..Len(cv_categories) :
            (cv_categories[i].has_data = 0) <=>
                (\E j \in 1..Len(cv_categories) :
                     cv_categories[j].parent = cv_categories[i].pk)

\* C6: two distinct category records of one run never have the same slug.
C6_SlugsDistinct ==
    \A i, j \in 1..Len(cv_categories) :
        i # j => cv_categories[i].slug # cv_categories[j].slug

\* The level column a category was created from: the length of its key.
RECURSIVE CountBars(_)
CountBars(key) ==
    IF key = <<>> THEN 0
    ELSE (IF Head(key) = "|" THEN 1 ELSE 0) + CountBars(Tail(key))

LevelOfCategory(cat) ==
    1 + CountBars(CHOOSE k \in DOMAIN pk_map : pk_map[k] = cat.pk)

\* C7: among the categories with the same parent and the same level column,
\* taken in first-seen order, the sort values are 1, 2, ..., N.
C7_SortContiguousAmongSiblings ==
    \A i \in 1..Len(cv_categories) :
        cv_categories[i].sort =
            1 + Cardinality({ j \in 1..(i - 1) :
                    /\ cv_categories[j].parent = cv_categories[i].parent
                    /\ LevelOfCategory(cv_categories[j])
                          = LevelOfCategory(cv_categories[i]) })

\* The CategoriesData records the last row created.
DataOfLastRow ==
    { d \in 1..Len(cv_categories_data) :
        cv_categories_data[d].pk >= cv_prev.pk_counter_data }

\* The movements the last row created for data record d.
MovementsOfLastRow(d) ==
    { m \in 1..Len(cv_categories_movements) :
        /\ cv_categories_movements[m].pk >= cv_prev.pk_counter_movements
        /\ cv_categories_movements[m].category_data_movements_id
              = cv_categories_data[d].pk }

\* C10: a sequence_menu row whose leaf key is in the explanation_sequence index
\* yields, for each of its media records, a movement with is_related_only = true
\* and the indexed slug; a row whose key is absent yields a movement without a
\* related slug field.
C10_IndexedRowIsRelatedOnly ==
    (RowProcessed /\ cv_prev.file_type = "sequence_menu"
       /\ Populated(cv_prev.row.levels) # {}) =>
        LET levels == cv_prev.row.levels
            key    == PrefixKey(levels, LeafIndex(levels))
            hit    == /\ "explanation_sequence" \in DOMAIN explanation_slug_map
                      /\ key \in DOMAIN explanation_slug_map["explanation_sequence"]
        IN  \A d \in DataOfLastRow :
               IF hit
               THEN \E m \in MovementsOfLastRow(d) :
                       /\ cv_categories_movements[m].is_related_only = TRUE
                       /\ "related_explanation_slug" \in DOMAIN cv_categories_movements[m]
                       /\ cv_categories_movements[m].related_explanation_slug
                             = explanation_slug_map["explanation_sequence"][key]
               ELSE \E m \in MovementsOfLastRow(d) :
                       "related_explanation_slug" \notin DOMAIN cv_categories_movements[m]


(***************************************************************************)
(* Properties of convert_multi_level_categories_all.py                     *)
(***************************************************************************)
\* C11: every CategoriesData record of the run has at least one
\* CategoriesMovements record referencing it, also when its row supplied no
\* related slug.
C11_EveryDataHasMovement ==
    \A d \in 1..Len(al_categories_data) :
        \E m \in 1..Len(al_categories_movements) :
            al_categories_movements[m].category_data_movements_id
                = al_categories_data[d].pk


(***************************************************************************)
(* Properties of convert_multi_level_categories.py: keys, files and errors  *)
(***************************************************************************)
\* The pks of a list of records are base, base + 1, ... in list order.
PksCountFrom(records, base) ==
    \A i \in 1..Len(records) : records[i].pk = base + i - 1

\* C12: in every call of generate_categories_json, the first one and a later
\* one on the same converter alike, the category pks in emission order are
\* 4000, 4001, ..., the CategoriesData pks 7000, 7001, ... and the movement pks
\* 3000, 3001, ..., across table boundaries, and the counters are one past the
\* last pk given.
C12_PksCountFromSeeds ==
    /\ PksCountFrom(cv_categories, 4000)
    /\ PksCountFrom(cv_categories_data, 7000)
    /\ PksCountFrom(cv_categories_movements, 3000)
    /\ pk_counter_categories = 4000 + Len(cv_categories)
    /\ pk_counter_data = 7000 + Len(cv_categories_data)
    /\ pk_counter_movements = 3000 + Len(cv_categories_movements)

\* A second call on a used converter has emitted categories of two tables
\* with their data and movements.
C12_Witness ==
    /\ cv_recalled
    /\ \E i, j \in 1..Len(cv_categories) : cv_categories[i].type # cv_categories[j].type
    /\ Len(cv_categories_data) >= 2
    /\ Len(cv_categories_movements) >= 2


(***************************************************************************)
(* Properties of csv_to_json_v3.py: movements and slug exhaustion           *)
(***************************************************************************)
\* C13: the movements collection that __main__ writes holds each created
\* movement once, with the pks 3000, 3001, ... in creation order.
C13_MovementsWrittenOnce ==
    v3_pc = "written" =>
        /\ Len(all_categories_movements) = current_movements_pk - 3000
        /\ \A i \in 1..Len(all_categories_movements) :
              all_categories_movements[i].pk = 3000 + i - 1


(***************************************************************************)
(* Properties of convert_multi_level_categories.py: media records           *)
(***************************************************************************)
\* The populated orientation cells (front, side) of the last row.
PopulatedOrientations ==
    (IF cv_prev.row.front # NaN THEN {"front"} ELSE {})
        \cup (IF cv_prev.row.side # NaN THEN {"side"} ELSE {})

\* C14: the number of CategoriesData records created for a row equals the
\* number of its populated orientation cells, and each of them has exactly one
\* CategoriesDataUrls record whose category_data_id is its pk.
C14_OneDataPerOrientation ==
    (RowProcessed /\ Populated(cv_prev.row.levels) # {}) =>
        /\ Cardinality(DataOfLastRow) = Cardinality(PopulatedOrientations)
        /\ \A d \in DataOfLastRow :
              Cardinality({ u \in 1..Len(cv_categories_data_urls) :
                              cv_categories_data_urls[u].category_data_id
                                  = cv_categories_data[d].pk }) = 1


(***************************************************************************)
(* Properties of convert_multi_level_categories.py: the explanation index   *)
(***************************************************************************)
ExplanationTypes == { "explanation_sequence", "explanation_unit" }

\* C15: for every explanation table that was loaded, each key of its index has
\* one position per level column; a row whose last level cell is populated has
\* the entry (its cells joined by '|', blank cells as empty strings) -> (slug of
\* its last cell plus "-un-exp"); a row whose last level cell is blank has no
\* entry; and the index holds nothing else.
C15_ExplanationIndexOfRows ==
    \A ft \in ExplanationTypes :
        explanation_files[ft] # Unreadable =>
            /\ ft \in DOMAIN explanation_slug_map
            /\ LET rows == explanation_files[ft]
                   n    == LevelColumnCount[ft]
                   d    == explanation_slug_map[ft]
               IN  /\ \A k \in DOMAIN d : CountBars(k) = n - 1
                   /\ \A r \in 1..Len(rows) :
                         IF rows[r][n] = NaN
                         THEN PrefixKey(rows[r], n) \notin DOMAIN d
                         ELSE /\ PrefixKey(rows[r], n) \in DOMAIN d
                              /\ d[PrefixKey(rows[r], n)] = slugify(rows[r][n]) \o UnExp
                   /\ \A k \in DOMAIN d :
                         \E r \in 1..Len(rows) : k = PrefixKey(rows[r], n)

\* An explanation table with a row blank in its first level cell and a row
\* blank in its last level cell has been loaded.
C15_Witness ==
    /\ explanation_files["explanation_sequence"] # Unreadable
    /\ \E r \in 1..Len(explanation_files["explanation_sequence"]) :
          explanation_files["explanation_sequence"][r][1] = NaN
    /\ \E r \in 1..Len(explanation_files["explanation_sequence"]) :
          explanation_files["explanation_sequence"][r][2] = NaN
    /\ Cardinality(DOMAIN explanation_slug_map["explanation_sequence"]) = 2


\* C16: when an explanation file could not be read by the running call, the
\* index has no entry for its table, and the movements of a row looked up
\* against that table carry no related slug.
C16_UnreadableFileLeavesNoEntry ==
    \A ft \in ExplanationTypes :
        explanation_files[ft] = Unreadable =>
            /\ ft \notin DOMAIN explanation_slug_map
            /\ (RowProcessed /\ LookupType(cv_prev.file_type) = ft) =>
                  \A d \in DataOfLastRow : \A mv \in MovementsOfLastRow(d) :
                      "related_explanation_slug" \notin DOMAIN cv_categories_movements[mv]


\* C17: a primary table file that main() does not find is skipped: the run goes
\* on to the remaining tables and the output files instead of ending there.
C17_MissingTableIsSkipped ==
    ("unit_menu" \in cv_missing) => cv_pc \in {"main", "next", "rows", "returned", "saved"}

(***************************************************************************)
(* Properties of convert_multi_level_categories_all.py: tables              *)
(***************************************************************************)
\* C18: a workbook without any level column is skipped: after it the run goes
\* on to the remaining files and returns their records instead of failing.
C18_NoLevelTableIsSkipped ==
    (al_table >= 1 /\ al_excel_files[al_table] = "nolevels") =>
        al_pc \in {"next", "rows", "saved"}


\* The ancestor lists generate_categories passes to ensure_unique_slug from the
\* current parent pointers, innermost ancestor first.
ParentChainsV3 ==
    {<<>>}
      \cup (IF current_parent_pk # None THEN { <<current_parent_pk>> } ELSE {})
      \cup (IF current_parent_pk # None /\ current_child_pk # None
            THEN { <<current_child_pk, current_parent_pk>> } ELSE {})
      \cup (IF current_parent_pk # None /\ current_child_pk # None
                /\ current_grandchild_pk # None
            THEN { <<current_grandchild_pk, current_child_pk, current_parent_pk>> }
            ELSE {})

\* The raw slugs the rows of the running table can ask for.
RawSlugsV3 ==
    IF v3_pc = "call"
    THEN { slugify_v3(n) \o files_and_types_v3[v3_table + 1].slug_suffix :
             n \in {NameA, NameB} }
    ELSE {}

\* ensure_unique_slug returns only slugs that are not in used_slugs, and raises
\* only for a raw slug that is in used_slugs.
EnsureUniqueSlugIsFresh ==
    \A raw \in RawSlugsV3, chain \in ParentChainsV3 :
        LET r == ensure_unique_slug(raw, chain, pk_to_slug, used_slugs)
        IN  /\ r.ok => r.slug \notin used_slugs
            /\ ~r.ok => raw \in used_slugs

\* A step appends only categories whose slugs were not in used_slugs, and a
\* run in which ensure_unique_slug has raised takes no further step.
AppendsFreshSlugsOrAborts ==
    /\ v3_pc # "raised"
    /\ \A i \in (Len(categories) + 1)..Len(categories') :
          /\ categories'[i].slug \notin used_slugs
          /\ \A j \in (Len(categories) + 1)..Len(categories') :
                i # j => categories'[i].slug # categories'[j].slug

\* C19: ensure_unique_slug never returns a slug that is in used_slugs; when it
\* exhausts the ancestor chain it raises and the run aborts (nothing is appended
\* or written afterwards); no category with an already-used slug is appended.
C19_ExhaustionAbortsRun ==
    []EnsureUniqueSlugIsFresh /\ [][AppendsFreshSlugsOrAborts]_varsV3

\* ensure_unique_slug has raised on a row below an existing level1 category:
\* every candidate built from its ancestors was already used.
C19_Witness ==
    /\ v3_pc = "raised"
    /\ Len(categories) >= 1
    /\ rows_read[Len(rows_read)].level1 = Empty


(***************************************************************************)
(* Properties of convert_multi_level_categories.py: malformed times         *)
(***************************************************************************)
\* C20: a row whose start_time or end_time cell is not an integer is processed
\* like a row without that field: each of its data records gets a movement
\* without the field, and the run continues.
C20_MalformedTimeIsAbsentField ==
    (RowProcessed /\ Populated(cv_prev.row.levels) # {}
       /\ (IntRaises(cv_prev.row.start_time) \/ IntRaises(cv_prev.row.end_time))) =>
        /\ cv_pc # "raised"
        /\ \A d \in DataOfLastRow :
              \E mv \in MovementsOfLastRow(d) :
                  IntRaises(cv_prev.row.start_time) =>
                      "start_time" \notin DOMAIN cv_categories_movements[mv]

\* The registry key of a category record.
KeyOfCategory(cat) == CHOOSE k \in DOMAIN pk_map : pk_map[k] = cat.pk

\* "'|'.join(current_path[:i])" of a key "'|'.join(current_path[:i+1])": the
\* key without its last segment and the bar before it.
RECURSIVE ParentKeyOf(_)
ParentKeyOf(key) ==
    IF key = <<>> THEN <<>>
    ELSE IF key[Len(key)] = "|" THEN SubSeq(key, 1, Len(key) - 1)
    ELSE ParentKeyOf(SubSeq(key, 1, Len(key) - 1))

\* C21: a category created from a level column deeper than the first has as
\* parent the id registered for its path truncated by one level and carries no
\* category_type; a category created from the first level column has parent
\* null and carries category_type; also after rows with a blank shallower cell.
C21_ParentIsTruncatedPath ==
    \A i \in 1..Len(cv_categories) :
        LET cat == cv_categories[i]
            key == KeyOfCategory(cat)
        IN  IF CountBars(key) = 0
            THEN cat.parent = None /\ "category_type" \in DOMAIN cat
            ELSE /\ ParentKeyOf(key) \in DOMAIN pk_map
                 /\ cat.parent = pk_map[ParentKeyOf(key)]
                 /\ "category_type" \notin DOMAIN cat

\* The category record a CategoriesData record refers to.
CategoryOfData(d) ==
    CHOOSE i \in 1..Len(cv_categories) : cv_categories[i].pk = d.category_id

\* C22: every CategoriesData record created for a row of table T refers to a
\* category whose type is TYPE_MAP of T's file type, also when an earlier
\* table of the run contained the same level path.
C22_DataCategoryHasTableType ==
    RowProcessed =>
        \A d \in DataOfLastRow :
            /\ \E i \in 1..Len(cv_categories) :
                  cv_categories[i].pk = cv_categories_data[d].category_id
            /\ cv_categories[CategoryOfData(cv_categories_data[d])].type
                  = TYPE_MAP[cv_prev.file_type]


(***************************************************************************)
(* Properties of csv_to_json_v3.py: the result of ensure_unique_slug       *)
(***************************************************************************)
\* The suffix-stripped slugs of the ancestors in parent_pks that are not
\* empty, nearest ancestor first.
RECURSIVE AncestorBases(_, _)
AncestorBases(parent_pks, pk_to_slug_) ==
    IF parent_pks = <<>> THEN <<>>
    ELSE LET parent_base == remove_known_suffixes(SlugOfPk(pk_to_slug_, Head(parent_pks)))
         IN  (IF parent_base # Empty THEN <<parent_base>> ELSE <<>>)
               \o AncestorBases(Tail(parent_pks), pk_to_slug_)

\* The k-th candidate: the first k ancestor bases, outermost first, then the
\* raw slug, joined by '-'.
CandidateAt(raw_slug, bases, k) ==
    Join(<<"-">>, [j \in 1..k |-> bases[k + 1 - j]] \o <<raw_slug>>)

\* The slugs and the pk -> slug entries of the categories emitted so far.
SlugsEmittedV3 ==
    { CategoriesSoFarV3[i].slug : i \in 1..Len(CategoriesSoFarV3) }

\* C23: ensure_unique_slug returns raw_slug when it is unused; otherwise it
\* returns the first unused candidate, the k-th candidate being the stripped
\* slugs of the first k ancestors with a non-empty stripped slug (outermost
\* first) joined by '-' and followed by raw_slug; the call adds nothing to
\* used_slugs and pk_to_slug, which hold the emitted categories' slugs only.
C23_FirstUnusedCandidate ==
    /\ \A raw \in RawSlugsV3, chain \in ParentChainsV3 :
          LET r     == ensure_unique_slug(raw, chain, pk_to_slug, used_slugs)
              bases == AncestorBases(chain, pk_to_slug)
              free  == { k \in 1..Len(bases) :
                           CandidateAt(raw, bases, k) \notin used_slugs }
          IN  IF raw \notin used_slugs THEN r.ok /\ r.slug = raw
              ELSE free # {} =>
                     /\ r.ok
                     /\ r.slug = CandidateAt(raw, bases,
                                     CHOOSE k \in free : \A j \in free : k <= j)
    /\ used_slugs = SlugsEmittedV3
    /\ DOMAIN pk_to_slug = { CategoriesSoFarV3[i].pk : i \in 1..Len(CategoriesSoFarV3) }
    /\ \A i \in 1..Len(CategoriesSoFarV3) :
          pk_to_slug[CategoriesSoFarV3[i].pk] = CategoriesSoFarV3[i].slug

\* A call for a used raw slug whose first candidate is used too returns the
\* second candidate, built from two ancestors.
C23_Witness ==
    \E raw \in RawSlugsV3, chain \in ParentChainsV3 :
        LET r     == ensure_unique_slug(raw, chain, pk_to_slug, used_slugs)
            bases == AncestorBases(chain, pk_to_slug)
        IN  /\ raw \in used_slugs
            /\ Len(bases) >= 2
            /\ CandidateAt(raw, bases, 1) \in used_slugs
            /\ r.ok
            /\ r.slug = CandidateAt(raw, bases, 2)


(***************************************************************************)
(* Properties of convert_multi_level_categories_all.py: the front file     *)
(***************************************************************************)
\* The alias columns of a row that hold a value, in the order they are tried.
PopulatedAliases(cells) ==
    { k \in 1..Len(FrontAliases) :
        /\ FrontAliases[k] \in DOMAIN cells
        /\ cells[FrontAliases[k]] # NaN
        /\ cells[FrontAliases[k]] # Empty }

\* C24: the front media filename of a row is the first non-blank value among
\* the alias columns in their fixed order: when an earlier alias column is
\* blank and a later one is populated, process_row creates a front record
\* whose file is the later value.
C24_FirstNonBlankAlias ==
    al_pc = "rows" =>
        \A row \in RowsAll :
            LET c == process_row_all(ConverterStateAll, row)
                p == PopulatedAliases(row.front)
                k == CHOOSE x \in p : \A y \in p : x <= y
            IN  (c.last_category_id # None /\ p # {}) =>
                    \E d \in (Len(al_categories_data) + 1)..Len(c.categories_data) :
                        /\ c.categories_data[d].direction = <<"front">>
                        /\ \E u \in 1..Len(c.categories_data_urls) :
                              /\ c.categories_data_urls[u].category_data_id
                                    = c.categories_data[d].pk
                              /\ c.categories_data_urls[u].path
                                    = <<"odissi/sequence/">>
                                        \o Strip(row.front[FrontAliases[k]])


(***************************************************************************)
(* Properties of csv_to_json_v3.py: the records of a row's media           *)
(***************************************************************************)
\* C25: the title of every CategoriesData record is the name of the category
\* its category_id refers to, also for rows that leave an intermediate level
\* blank and rows that populate no level column.
C25_TitleIsCategoryName ==
    \A d \in 1..Len(all_categories_data) :
        \A c \in 1..Len(CategoriesSoFarV3) :
            CategoriesSoFarV3[c].pk = all_categories_data[d].category_id
                => CategoriesSoFarV3[c].name = all_categories_data[d].title


(***************************************************************************)
(* Properties of convert_multi_level_categories.py: the lookup keys        *)
(***************************************************************************)
\* current_path of process_row after the level loop of a row.
PathOfRow(levels) ==
    [i \in 1..Len(levels) |-> IF levels[i] # NaN THEN Strip(levels[i]) ELSE Empty]

\* The level cells of a row's parent level: the leaf cell blanked.
ParentLevels(levels) == [levels EXCEPT ![LeafIndex(levels)] = NaN]

\* C26: the keys process_row looks a row and its parent level up with follow
\* the convention of the index keys: the level values joined by '|' and
\* blank-padded to the number of level columns, so that they equal the keys
\* load_explanation_slugs builds for explanation rows with the same level
\* values, whatever the depth of the row's leaf.
C26_LookupKeyIsIndexKey ==
    (RowProcessed /\ LookupType(cv_prev.file_type) # "none"
       /\ Populated(cv_prev.row.levels) # {}) =>
        LET levels == cv_prev.row.levels
        IN  /\ LeafKey(PathOfRow(levels), LeafIndex(levels)) = ExplanationKey(levels)
            /\ LeafIndex(levels) > 1 =>
                   ParentKey(PathOfRow(levels), LeafIndex(levels))
                      = ExplanationKey(ParentLevels(levels))


(***************************************************************************)
(* Properties of convert_multi_level_categories.py: movements per record   *)
(***************************************************************************)
\* A movement record without time fields.
Untimed(mv) == "start_time" \notin DOMAIN mv /\ "end_time" \notin DOMAIN mv

\* C27: for every CategoriesData record created for a row, when the row's
\* start_time and end_time are both populated exactly two movements refer to
\* it, first an overview movement without time fields and then a detail
\* movement carrying the row's start_time and end_time; otherwise exactly one
\* movement, without time fields, refers to it.
C27_MovementsPerDataRecord ==
    (RowProcessed /\ Populated(cv_prev.row.levels) # {}) =>
        /\ DataOfLastRow # {}
        /\ \A d \in DataOfLastRow :
              LET ms  == MovementsOfLastRow(d)
                  row == cv_prev.row
              IN  IF row.start_time # TimeNaN /\ row.end_time # TimeNaN
                  THEN /\ Cardinality(ms) = 2
                       /\ \E o, t \in ms :
                             /\ o < t
                             /\ Untimed(cv_categories_movements[o])
                             /\ cv_categories_movements[o].is_related_only = TRUE
                             /\ "start_time" \in DOMAIN cv_categories_movements[t]
                             /\ "end_time" \in DOMAIN cv_categories_movements[t]
                             /\ TimeInt(cv_categories_movements[t].start_time)
                                   = row.start_time
                             /\ TimeInt(cv_categories_movements[t].end_time)
                                   = row.end_time
                  ELSE /\ Cardinality(ms) = 1
                       /\ \A mv \in ms : Untimed(cv_categories_movements[mv])


(***************************************************************************)
(* Properties of csv_to_json_v3.py: the time fields of movements           *)
(***************************************************************************)
\* C28: a movement carries start_time and end_time only for a timed sub-clip
\* of its row; generate_categories reads the columns level1..level4, front,
\* side and movie only, so no row supplies time information and no movement
\* has a start_time or an end_time field.
C28_NoTimeFieldsWithoutTimes ==
    \A mv \in 1..Len(all_categories_movements) :
        /\ "start_time" \notin DOMAIN all_categories_movements[mv]
        /\ "end_time" \notin DOMAIN all_categories_movements[mv]


(***************************************************************************)
(* Properties of convert_multi_level_categories.py: calls on one converter *)
(***************************************************************************)
\* C29: after each call of generate_categories_json on one converter, the
\* explanation index has an entry for a table only if the table was read in
\* that same call, and the entry is the one built from the rows read in it:
\* nothing of an earlier call survives a missing or unreadable table.
C29_IndexIsOfTheSameCall ==
    cv_pc \in {"returned", "saved"} =>
        \A ft \in DOMAIN explanation_slug_map :
            /\ explanation_files[ft] # Unreadable
            /\ explanation_slug_map[ft]
                  = ExplanationSlugDict(explanation_files[ft], EmptyDict)


(***************************************************************************)
(* Properties of csv_to_json_v3.py: the category of a media record         *)
(***************************************************************************)
\* C30: the category_id of every CategoriesData record is never null and is
\* the pk of a category emitted in the run, also for rows that carry a media
\* filename before any level1 value has been seen.
C30_CategoryIdIsEmittedPk ==
    \A d \in 1..Len(all_categories_data) :
        /\ all_categories_data[d].category_id # None
        /\ \E c \in 1..Len(CategoriesSoFarV3) :
              CategoriesSoFarV3[c].pk = all_categories_data[d].category_id

====
